---- MODULE Spec2Model ----
(***************************************************************************)
(* OpenFuel: the price-string normaliser (src/src/utils.py), the table     *)
(* extractor (src/src/scraper.py) and the pipeline run (src/main.py).      *)
(*                                                                         *)
(* A Python str is a sequence of one-character strings.  A Python float is *)
(* the exact decimal m * 10^e with m not divisible by 10 (0.0 is m = 0,    *)
(* e = 0): every decimal literal of at most 15 significant digits names a  *)
(* double of its own and repr() gives back its shortest digits, so within  *)
(* the bounds used here the decimal and the double stand in one-to-one     *)
(* correspondence.                                                         *)
(***************************************************************************)
EXTENDS Integers, Sequences, FiniteSets, TLC

VARIABLES
    price_str,      \* clean_price_string: the argument of the call
    clean_pc,       \* "call" | "returned" | "reapplied"
    clean_ret,      \* clean_price_string(price_str)
    clean_again,    \* clean_price_string(str(clean_ret))
    clean_prefixed, \* clean_price_string("ƒ,1" + price_str)
    html_content,   \* parse_fuel_data: the markup, a sequence of tags
    fuel_type,      \* parse_fuel_data: the fuel label
    parse_pc,       \* "call" | "returned"
    parse_ret,      \* what parse_fuel_data returned or raised
    CLOUDSCRAPER_AVAILABLE, \* whether "import cloudscraper" succeeded
    pc,             \* main(): the statement the run is at
    scraper,        \* the client get_scraper() returned
    requests_log,   \* the GET requests sent: <<url, client>>
    petrol_html,    \* fetch_fuel_data(PETROL_URL)
    petrol_ret,     \* parse_fuel_data(petrol_html, "petrol")
    diesel_html,    \* fetch_fuel_data(DIESEL_URL)
    diesel_ret,     \* parse_fuel_data(diesel_html, "diesel")
    output,         \* the dict scrape_fuel_prices() returns
    prices_json,    \* the content of the file prices.json
    prior_json,     \* the content of prices.json when the run started
    save_invoked,   \* whether save_json was called
    exc,            \* the exception raised, if any
    exit_code       \* the status the process exited with

cleanVars == <<price_str, clean_pc, clean_ret, clean_again, clean_prefixed>>
parseVars == <<html_content, fuel_type, parse_pc, parse_ret>>
mainVars == <<CLOUDSCRAPER_AVAILABLE, pc, scraper, requests_log, petrol_html,
              petrol_ret, diesel_html, diesel_ret, output, prices_json,
              prior_json, save_invoked, exc, exit_code>>
vars == <<cleanVars, parseVars, mainVars>>

----------------------------------------------------------------------------
(* Bounds *)

\* longest price text handed to clean_price_string
MaxLen == 6

\* most tags (block containers and table rows) in one markup document
MaxTags == 4

----------------------------------------------------------------------------
(* Python values *)

\* U+0192, the first character of the mis-encoded rupee sign
FLORIN == "f"

\* the characters price texts are drawn from
PriceChars == {"0", "1", ".", ",", " ", FLORIN}

Digits == {"0", "1", "2", "3", "4", "5", "6", "7", "8", "9"}

Whitespace == {" "}

\* a missing argument (Python None passed for price_str)
NoneStr == <<"None">>

\* Optional[float]: None, or the float m * 10^e
None == [ok |-> FALSE, m |-> 0, e |-> 0]

RECURSIVE Normalize(_, _)
Normalize(m, e) ==
    IF m = 0 THEN [ok |-> TRUE, m |-> 0, e |-> 0]
    ELSE IF m % 10 = 0 THEN Normalize(m \div 10, e + 1)
    ELSE [ok |-> TRUE, m |-> m, e |-> e]

DigitVal(c) ==
    CASE c = "0" -> 0 [] c = "1" -> 1 [] c = "2" -> 2 [] c = "3" -> 3
      [] c = "4" -> 4 [] c = "5" -> 5 [] c = "6" -> 6 [] c = "7" -> 7
      [] c = "8" -> 8 [] c = "9" -> 9

DigitChar(d) ==
    CASE d = 0 -> "0" [] d = 1 -> "1" [] d = 2 -> "2" [] d = 3 -> "3"
      [] d = 4 -> "4" [] d = 5 -> "5" [] d = 6 -> "6" [] d = 7 -> "7"
      [] d = 8 -> "8" [] d = 9 -> "9"

RECURSIVE DigitsToNat(_)
DigitsToNat(s) ==
    IF s = <<>> THEN 0
    ELSE 10 * DigitsToNat(SubSeq(s, 1, Len(s) - 1)) + DigitVal(s[Len(s)])

RECURSIVE NatToDigits(_)
NatToDigits(n) ==
    IF n < 10 THEN <<DigitChar(n)>>
    ELSE NatToDigits(n \div 10) \o <<DigitChar(n % 10)>>

RECURSIVE Zeros(_)
Zeros(n) == IF n <= 0 THEN <<>> ELSE <<"0">> \o Zeros(n - 1)

Count(s, c) == Len(SelectSeq(s, LAMBDA x : x = c))

\* index of the first c in s (0 when absent)
RECURSIVE IndexOf(_, _)
IndexOf(s, c) ==
    IF s = <<>> THEN 0
    ELSE IF Head(s) = c THEN 1
    ELSE LET i == IndexOf(Tail(s), c) IN IF i = 0 THEN 0 ELSE i + 1

\* str.strip(): leading and trailing whitespace removed
RECURSIVE LStrip(_, _)
LStrip(s, chars) ==
    IF s # <<>> /\ Head(s) \in chars THEN LStrip(Tail(s), chars) ELSE s

RECURSIVE RStrip(_, _)
RStrip(s, chars) ==
    IF s # <<>> /\ s[Len(s)] \in chars
    THEN RStrip(SubSeq(s, 1, Len(s) - 1), chars) ELSE s

Strip(s) == RStrip(LStrip(s, Whitespace), Whitespace)

\* str.replace(old, ""): every non-overlapping occurrence, left to right
RECURSIVE Remove(_, _)
Remove(s, old) ==
    IF Len(s) < Len(old) THEN s
    ELSE IF SubSeq(s, 1, Len(old)) = old
         THEN Remove(SubSeq(s, Len(old) + 1, Len(s)), old)
         ELSE <<Head(s)>> \o Remove(Tail(s), old)

\* mutant: a parser that reads a text without digits as 0
FloatParsesNoDigits(s) == Count(s, ".") <= 1

\* float(s) for s made of digits and dots: ValueError unless s has a digit
\* and at most one dot
FloatParses(s) == Count(s, ".") <= 1 /\ \E i \in 1..Len(s) : s[i] \in Digits

FloatOf(s) ==
    LET dot  == IndexOf(s, ".")
        int  == IF dot = 0 THEN s ELSE SubSeq(s, 1, dot - 1)
        frac == IF dot = 0 THEN <<>> ELSE SubSeq(s, dot + 1, Len(s))
    IN  Normalize(DigitsToNat(int \o frac), 0 - Len(frac))

\* str(v) of a float: repr's shortest digits, in positional notation when
\* the decimal point lies in -4 < decpt <= 16 and in exponent notation
\* otherwise
FloatStr(v) ==
    IF v.m = 0 THEN <<"0", ".", "0">>
    ELSE
      LET ds    == NatToDigits(v.m)
          k     == Len(ds)
          decpt == k + v.e
          ex    == decpt - 1
          mag   == IF ex < 0 THEN 0 - ex ELSE ex
          exds  == IF mag < 10 THEN <<"0">> \o NatToDigits(mag)
                   ELSE NatToDigits(mag)
      IN  IF decpt <= -4 \/ decpt > 16
          THEN <<Head(ds)>>
               \o (IF k > 1 THEN <<".">> \o Tail(ds) ELSE <<>>)
               \o <<"e", IF ex < 0 THEN "-" ELSE "+">> \o exds
          ELSE IF decpt <= 0
               THEN <<"0", ".">> \o Zeros(0 - decpt) \o ds
          ELSE IF decpt < k
               THEN SubSeq(ds, 1, decpt) \o <<".">> \o SubSeq(ds, decpt + 1, k)
          ELSE ds \o Zeros(decpt - k) \o <<".", "0">>

----------------------------------------------------------------------------
(* src/src/utils.py *)

\* the mis-encoded currency prefix "ƒ,1"
Artifact == <<FLORIN, ",", "1">>

\* mutant: the pattern [^\d] in place of [^\d.], which deletes the dots too
ReSubNonDigit(raw) == SelectSeq(raw, LAMBDA c : c \in Digits)

\* re.sub(r"[^\d.]", "", raw)
ReSubNonPrice(raw) == SelectSeq(raw, LAMBDA c : c \in Digits \/ c = ".")

\* mutant: the artifact looked for after the other characters are stripped
CleanedOfStrippedFirst(price_str0) ==
    Remove(ReSubNonPrice(Strip(price_str0)), Artifact)

\* the cleaned string before the multiple-dot handling
CleanedOf(price_str0) == ReSubNonPrice(Remove(Strip(price_str0), Artifact))

\* the branch taken when cleaned.count(".") > 1
LeadingDotShape(cleaned) ==
    /\ cleaned # <<>>
    /\ Head(cleaned) = "."
    /\ Count(Tail(cleaned), ".") = 1

\* cleaned.lstrip(".")
LStripDots(cleaned) == LStrip(cleaned, {"."})

clean_price_string(price_str0) ==
    IF price_str0 = NoneStr THEN None
    ELSE IF Strip(price_str0) = <<>> THEN None
    ELSE
      LET cleaned == CleanedOf(price_str0)
      IN  IF Count(cleaned, ".") > 1 /\ ~LeadingDotShape(cleaned) THEN None
          ELSE
            LET cleaned2 == IF Count(cleaned, ".") > 1
                            THEN LStripDots(cleaned) ELSE cleaned
            IN  IF cleaned2 = <<>> THEN None
                ELSE IF FloatParses(cleaned2) THEN FloatOf(cleaned2)
                ELSE None

----------------------------------------------------------------------------
(* The normaliser applied to a text, and again to its own output *)

\* the texts of at most n characters
StringsUpTo(n) == UNION {[1..k -> PriceChars] : k \in 0..n}

PriceStrings == StringsUpTo(MaxLen) \cup {NoneStr}

CleanIdle ==
    /\ price_str = <<>>
    /\ clean_pc = "idle"
    /\ clean_ret = None
    /\ clean_again = None
    /\ clean_prefixed = None

CleanInit ==
    /\ price_str \in PriceStrings
    /\ clean_pc = "call"
    /\ clean_ret = None
    /\ clean_again = None
    /\ clean_prefixed = None

CallClean ==
    /\ clean_pc = "call"
    /\ clean_ret' = clean_price_string(price_str)
    /\ clean_pc' = "returned"
    /\ UNCHANGED <<price_str, clean_again, clean_prefixed, parseVars, mainVars>>

ReapplyClean ==
    /\ clean_pc = "returned"
    /\ clean_ret.ok
    /\ clean_again' = clean_price_string(FloatStr(clean_ret))
    /\ clean_pc' = "reapplied"
    /\ UNCHANGED <<price_str, clean_ret, clean_prefixed, parseVars, mainVars>>

\* the same text behind the currency artifact
CallCleanPrefixed ==
    /\ clean_pc = "returned"
    /\ price_str # NoneStr
    /\ clean_prefixed' = clean_price_string(Artifact \o price_str)
    /\ clean_pc' = "prefixed"
    /\ UNCHANGED <<price_str, clean_ret, clean_again, parseVars, mainVars>>

CleanNext == CallClean \/ ReapplyClean \/ CallCleanPrefixed


----------------------------------------------------------------------------
(* src/src/scraper.py: the markup *)

(* A document is the sequence of its tags in document order.  A "div" tag  *)
(* is a div.gd-fuel-table-block container; table says whether a            *)
(* table.gd-fuel-table-list is nested in it.  A "tr" tag is a table row,   *)
(* belonging to the container opened last before it: th says whether the   *)
(* row holds a header cell, cols are the texts of its td cells as          *)
(* get_text(strip=True) gives them.  Rows before the first container, or   *)
(* in a container without a fuel table, lie outside every fuel table.      *)
BlockTag(hasTable) ==
    [tag |-> "div", table |-> hasTable, th |-> FALSE, cols |-> <<>>]

RowTag(hasTh, cells) ==
    [tag |-> "tr", table |-> FALSE, th |-> hasTh, cols |-> cells]

CityTexts == {<<>>, <<"A">>, <<"B">>}

PriceTexts == {<<"1", ".", "1">>, <<"0">>, <<FLORIN>>}

Tags ==
    {BlockTag(b) : b \in BOOLEAN}
    \cup {RowTag(FALSE, <<c, p>>) : c \in CityTexts, p \in PriceTexts}
    \cup {RowTag(TRUE, <<<<"A">>, <<"1", ".", "1">>>>), RowTag(FALSE, <<<<"A">>>>)}

\* the documents of at most n tags
TagSeqsUpTo(n) == UNION {[1..k -> Tags] : k \in 0..n}

Documents == TagSeqsUpTo(MaxTags)

FuelTypes == {"petrol", "diesel"}

\* soup.find_all("div", class_=CSS_SELECTOR_BLOCK), each block with what
\* block.find("table", ...) and table.find_all("tr") give for it
RECURSIVE FindAllBlocks(_)
FindAllBlocks(html) ==
    IF html = <<>> THEN <<>>
    ELSE
      LET before == FindAllBlocks(SubSeq(html, 1, Len(html) - 1))
          t      == html[Len(html)]
          n      == Len(before)
      IN  IF t.tag = "div"
          THEN Append(before, [table |-> t.table, rows |-> <<>>])
          ELSE IF n > 0 /\ before[n].table
               THEN [before EXCEPT ![n].rows = Append(@, t)]
               ELSE before

----------------------------------------------------------------------------
(* src/src/scraper.py: parse_fuel_data *)

\* unique_data is a dict: the sequence of its items in insertion order
DictHas(d, key) == \E i \in 1..Len(d) : d[i].city = key

\* unique_data[key] = value
DictSet(d, key, value) ==
    IF DictHas(d, key)
    THEN [i \in 1..Len(d) |->
            IF d[i].city = key THEN [city |-> key, price |-> value] ELSE d[i]]
    ELSE Append(d, [city |-> key, price |-> value])

\* mutant: the membership test left out, so a later row overwrites
ShouldRecordAlways(unique_data, name_text) == name_text # <<>>

\* name_text and name_text not in unique_data
ShouldRecord(unique_data, name_text) ==
    name_text # <<>> /\ ~DictHas(unique_data, name_text)

\* mutant: the test for a header cell left out
ProcessRowNoHeaderSkip(unique_data, row) ==
    IF Len(row.cols) >= 2
    THEN LET name_text  == row.cols[1]
             price_text == row.cols[2]
             price_val  == clean_price_string(price_text)
         IN  IF price_val = None THEN unique_data
             ELSE IF ShouldRecord(unique_data, name_text)
                  THEN DictSet(unique_data, name_text, price_val)
                  ELSE unique_data
    ELSE unique_data

\* mutant: the records collected in a list, appended to without a look-up
ProcessRowAppend(unique_data, row) ==
    IF row.th THEN unique_data
    ELSE IF Len(row.cols) >= 2
    THEN LET name_text  == row.cols[1]
             price_text == row.cols[2]
             price_val  == clean_price_string(price_text)
         IN  IF price_val = None THEN unique_data
             ELSE IF name_text # <<>>
                  THEN Append(unique_data, [city |-> name_text, price |-> price_val])
                  ELSE unique_data
    ELSE unique_data

\* the body of the loop over rows
ProcessRow(unique_data, row) ==
    IF row.th THEN unique_data
    ELSE IF Len(row.cols) >= 2
    THEN LET name_text  == row.cols[1]
             price_text == row.cols[2]
             price_val  == clean_price_string(price_text)
         IN  IF price_val = None THEN unique_data
             ELSE IF ShouldRecord(unique_data, name_text)
                  THEN DictSet(unique_data, name_text, price_val)
                  ELSE unique_data
    ELSE unique_data

\* mutant: "break" in place of "continue" when the price is rejected
RECURSIVE ProcessRowsBreak(_, _)
ProcessRowsBreak(unique_data, rows) ==
    IF rows = <<>> THEN unique_data
    ELSE LET row == Head(rows)
         IN  IF ~row.th /\ Len(row.cols) >= 2
                /\ clean_price_string(row.cols[2]) = None
             THEN unique_data
             ELSE ProcessRowsBreak(ProcessRow(unique_data, row), Tail(rows))

RECURSIVE ProcessRows(_, _)
ProcessRows(unique_data, rows) ==
    IF rows = <<>> THEN unique_data
    ELSE ProcessRows(ProcessRow(unique_data, Head(rows)), Tail(rows))

\* the loop over blocks
RECURSIVE ProcessBlocks(_, _)
ProcessBlocks(unique_data, blocks) ==
    IF blocks = <<>> THEN unique_data
    ELSE IF ~Head(blocks).table THEN ProcessBlocks(unique_data, Tail(blocks))
    ELSE ProcessBlocks(ProcessRows(unique_data, Head(blocks).rows), Tail(blocks))

\* mutant: tables_found set inside the loop over rows
TablesFoundInRowLoop(blocks) ==
    \E i \in 1..Len(blocks) : blocks[i].table /\ blocks[i].rows # <<>>

\* tables_found after the loop
TablesFound(blocks) == \E i \in 1..Len(blocks) : blocks[i].table

NoBlocksMessage(fuel) == <<"No fuel table blocks found in ", fuel, " data.">>

NoDataMessage(fuel) == <<"Failed to extract any fuel data from ", fuel, " page.">>

\* mutant: the two messages swapped
ExtractionErrorSwapped(tables_found, fuel) ==
    IF tables_found THEN NoBlocksMessage(fuel) ELSE NoDataMessage(fuel)

\* the ExtractionError raised when unique_data is empty
ExtractionErrorFor(tables_found, fuel) ==
    IF ~tables_found THEN NoBlocksMessage(fuel) ELSE NoDataMessage(fuel)

\* mutant: "unique_data is None", never true of a dict
IsNoneDict(unique_data) == FALSE

\* not unique_data
IsEmptyDict(unique_data) == unique_data = <<>>

Raised(msg) == [raised |-> TRUE, message |-> msg, data |-> <<>>]

\* mutant: the list built back to front
ReturnedReversed(list) ==
    [raised |-> FALSE, message |-> <<>>,
     data |-> [i \in 1..Len(list) |-> list[Len(list) + 1 - i]]]

Returned(list) == [raised |-> FALSE, message |-> <<>>, data |-> list]

parse_fuel_data(html, fuel) ==
    LET blocks      == FindAllBlocks(html)
        unique_data == ProcessBlocks(<<>>, blocks)
    IN  IF IsEmptyDict(unique_data)
        THEN Raised(ExtractionErrorFor(TablesFound(blocks), fuel))
        ELSE Returned(unique_data)

----------------------------------------------------------------------------
(* The extractor applied to a document *)

NotCalled == [raised |-> FALSE, message |-> <<"not called">>, data |-> <<>>]

ParseIdle ==
    /\ html_content = <<>>
    /\ fuel_type = "petrol"
    /\ parse_pc = "idle"
    /\ parse_ret = NotCalled

ParseInit ==
    /\ html_content \in Documents
    /\ fuel_type \in FuelTypes
    /\ parse_pc = "call"
    /\ parse_ret = NotCalled

CallParse ==
    /\ parse_pc = "call"
    /\ parse_ret' = parse_fuel_data(html_content, fuel_type)
    /\ parse_pc' = "returned"
    /\ UNCHANGED <<html_content, fuel_type, cleanVars, mainVars>>


----------------------------------------------------------------------------
(* src/main.py: a run of the pipeline *)

PETROL_URL == "https://www.goodreturns.in/petrol-price.html"

DIESEL_URL == "https://www.goodreturns.in/diesel-price.html"

\* what a page can hold when fetch_fuel_data returns its text
Pages ==
    { <<>>,
      <<BlockTag(FALSE)>>,
      <<BlockTag(TRUE), RowTag(FALSE, <<<<"A">>, <<FLORIN>>>>)>>,
      <<BlockTag(TRUE), RowTag(FALSE, <<<<"A">>, <<"1", ".", "1">>>>)>>,
      <<BlockTag(TRUE), RowTag(FALSE, <<<<"A">>, <<"1", ".", "1">>>>),
        BlockTag(TRUE), RowTag(FALSE, <<<<"B">>, <<"0">>>>)>> }

\* Optional[str]: what fetch_fuel_data returns
NotFetched == [status |-> "unset", text |-> <<>>]

NoneHtml == [status |-> "none", text |-> <<>>]

FetchResults == {NoneHtml} \cup {[status |-> "text", text |-> p] : p \in Pages}

\* get_ist_timestamp()
Timestamps == {"t1", "t2"}

NoOutput == [last_updated_ist |-> "", petrol |-> <<>>, diesel |-> <<>>]

\* the snapshot an earlier run wrote
OldOutput ==
    [last_updated_ist |-> "t0",
     petrol |-> <<[city |-> <<"A">>, price |-> FloatOf(<<"1">>)]>>,
     diesel |-> <<[city |-> <<"A">>, price |-> FloatOf(<<"1">>)]>>]

OutputKeys == <<"last_updated_ist", "petrol", "diesel">>

(* The content of prices.json: the top-level keys json.dump has written so *)
(* far with their values, and whether the closing brace was written.       *)
AbsentFile == [exists |-> FALSE, keys |-> <<>>, data |-> NoOutput, closed |-> FALSE]

\* "{}", the content the repository starts with
EmptyObjectFile == [exists |-> TRUE, keys |-> <<>>, data |-> NoOutput, closed |-> TRUE]

\* the file just after open(output_path, "w")
TruncatedFile == [exists |-> TRUE, keys |-> <<>>, data |-> NoOutput, closed |-> FALSE]

\* the file when json.dump stopped after n keys
PartialFile(out, n) ==
    [exists |-> TRUE,
     keys   |-> SubSeq(OutputKeys, 1, n),
     data   |-> [last_updated_ist |-> IF n >= 1 THEN out.last_updated_ist ELSE "",
                 petrol |-> IF n >= 2 THEN out.petrol ELSE <<>>,
                 diesel |-> IF n >= 3 THEN out.diesel ELSE <<>>],
     closed |-> FALSE]

\* the file when json.dump returned
DumpedFile(out) == [PartialFile(out, Len(OutputKeys)) EXCEPT !.closed = TRUE]

NoException == [type |-> "none", message |-> <<>>]

ExtractionError(msg) == [type |-> "ExtractionError", message |-> msg]

OSError == [type |-> "OSError", message |-> <<>>]

SystemExit == [type |-> "SystemExit", message |-> <<>>]

\* where scrape_fuel_prices goes after a fetch: "if ..._html is None: raise"
AfterFetch(html, next_pc) ==
    IF html.status = "none" THEN "except_extraction" ELSE next_pc

\* mutant: the except clause logs and does not re-raise
AfterParseSwallowed(ret, next_pc) == next_pc

\* where scrape_fuel_prices goes after a parse: the except clause logs and
\* re-raises
AfterParse(ret, next_pc) ==
    IF ret.raised THEN "except_extraction" ELSE next_pc

\* get_scraper()
get_scraper == IF CLOUDSCRAPER_AVAILABLE THEN "cloudscraper" ELSE "requests.Session"

MainIdle ==
    /\ CLOUDSCRAPER_AVAILABLE = TRUE
    /\ pc = "idle"
    /\ scraper = "unset"
    /\ requests_log = <<>>
    /\ petrol_html = NotFetched
    /\ petrol_ret = NotCalled
    /\ diesel_html = NotFetched
    /\ diesel_ret = NotCalled
    /\ output = NoOutput
    /\ prices_json = AbsentFile
    /\ prior_json = AbsentFile
    /\ save_invoked = FALSE
    /\ exc = NoException
    /\ exit_code = -1

MainInit ==
    /\ CLOUDSCRAPER_AVAILABLE \in BOOLEAN
    /\ pc = "start"
    /\ scraper = "unset"
    /\ requests_log = <<>>
    /\ petrol_html = NotFetched
    /\ petrol_ret = NotCalled
    /\ diesel_html = NotFetched
    /\ diesel_ret = NotCalled
    /\ output = NoOutput
    /\ prior_json \in {AbsentFile, EmptyObjectFile, DumpedFile(OldOutput)}
    /\ prices_json = prior_json
    /\ save_invoked = FALSE
    /\ exc = NoException
    /\ exit_code = -1

\* scrape_fuel_prices: "if not CLOUDSCRAPER_AVAILABLE: sys.exit(1)"; the
\* SystemExit passes both except clauses of main()
CheckCloudscraper ==
    /\ pc = "start"
    /\ IF CLOUDSCRAPER_AVAILABLE
       THEN /\ pc' = "get_scraper"
            /\ UNCHANGED <<exc, exit_code>>
       ELSE /\ pc' = "exited"
            /\ exc' = SystemExit
            /\ exit_code' = 1
    /\ UNCHANGED <<CLOUDSCRAPER_AVAILABLE, scraper, requests_log, petrol_html,
                   petrol_ret, diesel_html, diesel_ret, output, prices_json,
                   prior_json, save_invoked, cleanVars, parseVars>>

GetScraper ==
    /\ pc = "get_scraper"
    /\ scraper' = get_scraper
    /\ pc' = "fetch_petrol"
    /\ UNCHANGED <<CLOUDSCRAPER_AVAILABLE, requests_log, petrol_html, petrol_ret,
                   diesel_html, diesel_ret, output, prices_json, prior_json,
                   save_invoked, exc, exit_code, cleanVars, parseVars>>

FetchPetrol ==
    /\ pc = "fetch_petrol"
    /\ \E html \in FetchResults :
         /\ petrol_html' = html
         /\ pc' = AfterFetch(html, "parse_petrol")
         /\ exc' = IF html.status = "none"
                   THEN ExtractionError(<<"Could not fetch petrol data from source">>)
                   ELSE exc
    /\ requests_log' = Append(requests_log, <<PETROL_URL, scraper>>)
    /\ UNCHANGED <<CLOUDSCRAPER_AVAILABLE, scraper, petrol_ret, diesel_html,
                   diesel_ret, output, prices_json, prior_json, save_invoked,
                   exit_code, cleanVars, parseVars>>

ParsePetrol ==
    /\ pc = "parse_petrol"
    /\ LET ret == parse_fuel_data(petrol_html.text, "petrol")
       IN  /\ petrol_ret' = ret
           /\ pc' = AfterParse(ret, "fetch_diesel")
           /\ exc' = IF ret.raised THEN ExtractionError(ret.message) ELSE exc
    /\ UNCHANGED <<CLOUDSCRAPER_AVAILABLE, scraper, requests_log, petrol_html,
                   diesel_html, diesel_ret, output, prices_json, prior_json,
                   save_invoked, exit_code, cleanVars, parseVars>>

FetchDiesel ==
    /\ pc = "fetch_diesel"
    /\ \E html \in FetchResults :
         /\ diesel_html' = html
         /\ pc' = AfterFetch(html, "parse_diesel")
         /\ exc' = IF html.status = "none"
                   THEN ExtractionError(<<"Could not fetch diesel data from source">>)
                   ELSE exc
    /\ requests_log' = Append(requests_log, <<DIESEL_URL, scraper>>)
    /\ UNCHANGED <<CLOUDSCRAPER_AVAILABLE, scraper, petrol_html, petrol_ret,
                   diesel_ret, output, prices_json, prior_json, save_invoked,
                   exit_code, cleanVars, parseVars>>

ParseDiesel ==
    /\ pc = "parse_diesel"
    /\ LET ret == parse_fuel_data(diesel_html.text, "diesel")
       IN  /\ diesel_ret' = ret
           /\ pc' = AfterParse(ret, "build_output")
           /\ exc' = IF ret.raised THEN ExtractionError(ret.message) ELSE exc
    /\ UNCHANGED <<CLOUDSCRAPER_AVAILABLE, scraper, requests_log, petrol_html,
                   petrol_ret, diesel_html, output, prices_json, prior_json,
                   save_invoked, exit_code, cleanVars, parseVars>>

\* scrape_fuel_prices: the output structure, returned to main()
BuildOutput ==
    /\ pc = "build_output"
    /\ \E timestamp \in Timestamps :
         output' = [last_updated_ist |-> timestamp,
                    petrol |-> petrol_ret.data,
                    diesel |-> diesel_ret.data]
    /\ pc' = "save_open"
    /\ UNCHANGED <<CLOUDSCRAPER_AVAILABLE, scraper, requests_log, petrol_html,
                   petrol_ret, diesel_html, diesel_ret, prices_json, prior_json,
                   save_invoked, exc, exit_code, cleanVars, parseVars>>

\* save_json: open(output_path, "w") truncates the file, or raises and
\* leaves it alone
SaveOpen ==
    /\ pc = "save_open"
    /\ save_invoked' = TRUE
    /\ \/ /\ prices_json' = TruncatedFile
          /\ pc' = "save_dump"
          /\ UNCHANGED exc
       \/ /\ pc' = "except_exception"
          /\ exc' = OSError
          /\ UNCHANGED prices_json
    /\ UNCHANGED <<CLOUDSCRAPER_AVAILABLE, scraper, requests_log, petrol_html,
                   petrol_ret, diesel_html, diesel_ret, output, prior_json,
                   exit_code, cleanVars, parseVars>>

\* save_json: json.dump(data, f, ...) writes the document in pieces; a
\* write that raises leaves the pieces written so far
SaveDump ==
    /\ pc = "save_dump"
    /\ \/ /\ prices_json' = DumpedFile(output)
          /\ pc' = "save_stat"
          /\ UNCHANGED exc
       \/ \E n \in 0..Len(OutputKeys) :
            /\ prices_json' = PartialFile(output, n)
            /\ pc' = "except_exception"
            /\ exc' = OSError
    /\ UNCHANGED <<CLOUDSCRAPER_AVAILABLE, scraper, requests_log, petrol_html,
                   petrol_ret, diesel_html, diesel_ret, output, prior_json,
                   save_invoked, exit_code, cleanVars, parseVars>>

\* save_json: output_path.stat() for the log line
SaveStat ==
    /\ pc = "save_stat"
    /\ \/ /\ pc' = "finish"
          /\ UNCHANGED exc
       \/ /\ pc' = "except_exception"
          /\ exc' = OSError
    /\ UNCHANGED <<CLOUDSCRAPER_AVAILABLE, scraper, requests_log, petrol_html,
                   petrol_ret, diesel_html, diesel_ret, output, prices_json,
                   prior_json, save_invoked, exit_code, cleanVars, parseVars>>

\* main(): the sample log lines and sys.exit(0)
Finish ==
    /\ pc = "finish"
    /\ pc' = "exited"
    /\ exit_code' = 0
    /\ UNCHANGED <<CLOUDSCRAPER_AVAILABLE, scraper, requests_log, petrol_html,
                   petrol_ret, diesel_html, diesel_ret, output, prices_json,
                   prior_json, save_invoked, exc, cleanVars, parseVars>>

\* main(): except ExtractionError
HandleExtractionError ==
    /\ pc = "except_extraction"
    /\ pc' = "exited"
    /\ exit_code' = 1
    /\ UNCHANGED <<CLOUDSCRAPER_AVAILABLE, scraper, requests_log, petrol_html,
                   petrol_ret, diesel_html, diesel_ret, output, prices_json,
                   prior_json, save_invoked, exc, cleanVars, parseVars>>

\* main(): except Exception
HandleException ==
    /\ pc = "except_exception"
    /\ pc' = "exited"
    /\ exit_code' = 1
    /\ UNCHANGED <<CLOUDSCRAPER_AVAILABLE, scraper, requests_log, petrol_html,
                   petrol_ret, diesel_html, diesel_ret, output, prices_json,
                   prior_json, save_invoked, exc, cleanVars, parseVars>>

Next ==
    \/ CheckCloudscraper
    \/ GetScraper
    \/ FetchPetrol
    \/ ParsePetrol
    \/ FetchDiesel
    \/ ParseDiesel
    \/ BuildOutput
    \/ SaveOpen
    \/ SaveDump
    \/ SaveStat
    \/ Finish
    \/ HandleExtractionError
    \/ HandleException

Init == MainInit /\ CleanIdle /\ ParseIdle

----------------------------------------------------------------------------
(* Properties of a pipeline run (Spec) *)

FetchFailed == petrol_html.status = "none" \/ diesel_html.status = "none"

ExtractionFailed == petrol_ret.raised \/ diesel_ret.raised

\* a document with its three keys and its closing brace
IsCompleteSnapshot(f) == f.exists /\ f.closed /\ f.keys = OutputKeys

\* C1: when the fetch or the extraction of either fuel type has failed, the
\* run is aborting or has exited with status 1, save_json was not invoked
\* and prices.json is what it was before the run.
C1_FailureLeavesOutputAlone ==
    (FetchFailed \/ ExtractionFailed) =>
        /\ save_invoked = FALSE
        /\ prices_json = prior_json
        /\ pc \in {"except_extraction", "exited"}
        /\ (pc = "exited" => exit_code = 1)

C1_Witness ==
    /\ pc = "exited"
    /\ petrol_ret.data # <<>>
    /\ diesel_ret.raised
    /\ IsCompleteSnapshot(prior_json)

\* C2 (as claimed): after a run that started with a complete snapshot in
\* prices.json, the file is that snapshot unchanged or a complete new one.
C2_NeverPartialOutput ==
    (pc = "exited" /\ IsCompleteSnapshot(prior_json)) =>
        \/ prices_json = prior_json
        \/ IsCompleteSnapshot(prices_json) /\ prices_json.data = output

\* C16 (as claimed): without cloudscraper the run goes on with the plain
\* session: it does not end before a page is requested, and every request
\* of the run is sent with the requests.Session selected at startup.
C16_FallsBackToPlainSession ==
    (pc = "exited" /\ ~CLOUDSCRAPER_AVAILABLE) =>
        /\ scraper = "requests.Session"
        /\ Len(requests_log) >= 1
        /\ requests_log[1] = <<PETROL_URL, "requests.Session">>
        /\ \A i \in 1..Len(requests_log) : requests_log[i][2] = scraper

----------------------------------------------------------------------------
(* Properties of parse_fuel_data (SpecParse) *)

NoDataText(fuel) == <<"Failed to extract any fuel data from ", fuel, " page.">>

NoBlocksText(fuel) == <<"No fuel table blocks found in ", fuel, " data.">>

HasBlock(html) == \E i \in 1..Len(html) : html[i].tag = "div"

HasTableBlock(html) == \E i \in 1..Len(html) : html[i].tag = "div" /\ html[i].table

\* the rows of the fuel tables, in document order
RECURSIVE TableRows(_)
TableRows(blocks) ==
    IF blocks = <<>> THEN <<>>
    ELSE (IF Head(blocks).table THEN Head(blocks).rows ELSE <<>>)
         \o TableRows(Tail(blocks))

\* a data row: no header cell, a label cell and a price cell
IsDataRow(r) == ~r.th /\ Len(r.cols) >= 2

DataRows(html) == SelectSeq(TableRows(FindAllBlocks(html)), IsDataRow)

Accepted(r) == clean_price_string(r.cols[2]) # None

\* the first data row carrying the label (0 when there is none)
FirstRowOf(rows, city) ==
    LET at == {i \in 1..Len(rows) : rows[i].cols[1] = city}
    IN  IF at = {} THEN 0 ELSE CHOOSE i \in at : \A j \in at : i <= j

\* the first data row carrying the label with a price that was accepted
FirstAcceptedRowOf(rows, city) ==
    LET at == {i \in 1..Len(rows) : rows[i].cols[1] = city /\ Accepted(rows[i])}
    IN  IF at = {} THEN 0 ELSE CHOOSE i \in at : \A j \in at : i <= j

Occurrences(rows, city) == Cardinality({i \in 1..Len(rows) : rows[i].cols[1] = city})

\* C3: parse_fuel_data raises ExtractionError or returns a non-empty list.
C3_EmptyNeverReturned ==
    parse_pc = "returned" => (parse_ret.raised \/ Len(parse_ret.data) >= 1)

C3_Witness ==
    /\ parse_pc = "returned"
    /\ parse_ret.raised
    /\ Len(DataRows(html_content)) >= 2

\* C4: the city values of a returned list are pairwise distinct.
C4_CitiesDistinct ==
    parse_pc = "returned" =>
        \A i, j \in 1..Len(parse_ret.data) :
            i # j => parse_ret.data[i].city # parse_ret.data[j].city

\* the same label in accepted rows of two different table blocks
C4_Witness ==
    /\ parse_pc = "returned"
    /\ ~parse_ret.raised
    /\ LET blocks == FindAllBlocks(html_content)
       IN  \E b1, b2 \in 1..Len(blocks) :
             /\ b1 < b2
             /\ \E i \in 1..Len(blocks[b1].rows), j \in 1..Len(blocks[b2].rows) :
                  LET r1 == blocks[b1].rows[i]
                      r2 == blocks[b2].rows[j]
                  IN  /\ IsDataRow(r1) /\ IsDataRow(r2)
                      /\ Accepted(r1) /\ Accepted(r2)
                      /\ r1.cols[1] # <<>>
                      /\ r1.cols[1] = r2.cols[1]

\* C5 (as claimed): the record of a label that occurs in several data rows
\* carries the price of the label's first data row.
C5_FirstRowWins ==
    parse_pc = "returned" =>
        \A k \in 1..Len(parse_ret.data) :
            LET rows == DataRows(html_content)
                city == parse_ret.data[k].city
            IN  Occurrences(rows, city) >= 2 =>
                  parse_ret.data[k].price =
                      clean_price_string(rows[FirstRowOf(rows, city)].cols[2])

\* C5 (amended): every non-empty label with an accepted data row has a
\* record, and a label's record carries the price of the label's first data
\* row whose price text was accepted; no other row of the label changes it.
C5_FirstAcceptedRowWins ==
    parse_pc = "returned" =>
        LET rows == DataRows(html_content)
        IN  /\ \A k \in 1..Len(parse_ret.data) :
                 LET city  == parse_ret.data[k].city
                     first == FirstAcceptedRowOf(rows, city)
                 IN  /\ first # 0
                     /\ parse_ret.data[k].price =
                            clean_price_string(rows[first].cols[2])
            /\ \A i \in 1..Len(rows) :
                 (rows[i].cols[1] # <<>> /\ Accepted(rows[i])) =>
                    \E k \in 1..Len(parse_ret.data) :
                        parse_ret.data[k].city = rows[i].cols[1]

\* a label whose first row is rejected and whose two later rows are accepted
\* with different prices
C5_Witness ==
    /\ parse_pc = "returned"
    /\ ~parse_ret.raised
    /\ LET rows == DataRows(html_content)
       IN  \E i, j, k \in 1..Len(rows) :
             /\ i < j /\ j < k
             /\ rows[i].cols[1] # <<>>
             /\ rows[i].cols[1] = rows[j].cols[1]
             /\ rows[j].cols[1] = rows[k].cols[1]
             /\ ~Accepted(rows[i]) /\ Accepted(rows[j]) /\ Accepted(rows[k])
             /\ clean_price_string(rows[j].cols[2])
                  # clean_price_string(rows[k].cols[2])

C7_NoBlocksMessage ==
    (parse_pc = "returned" /\ ~HasBlock(html_content)) =>
        /\ parse_ret.raised
        /\ parse_ret.message = NoBlocksText(fuel_type)

C7_Witness ==
    /\ parse_pc = "returned"
    /\ fuel_type = "diesel"
    /\ ~HasBlock(html_content)
    /\ \E i \in 1..Len(html_content) :
         IsDataRow(html_content[i]) /\ Accepted(html_content[i])
    /\ parse_ret.raised

\* C8 (as claimed): every returned record has a price above zero.
C8_PricesPositive ==
    parse_pc = "returned" =>
        \A k \in 1..Len(parse_ret.data) : parse_ret.data[k].price.m > 0

\* C13: the returned list is in first-seen order: of two records, the one
\* whose recorded data row comes earlier in the markup comes earlier.
C13_FirstSeenOrder ==
    parse_pc = "returned" =>
        LET rows == DataRows(html_content)
        IN  \A i, j \in 1..Len(parse_ret.data) :
              i < j =>
                /\ FirstAcceptedRowOf(rows, parse_ret.data[i].city) # 0
                /\ FirstAcceptedRowOf(rows, parse_ret.data[i].city)
                     < FirstAcceptedRowOf(rows, parse_ret.data[j].city)

\* a label rejected first, another label recorded, then the first label
\* recorded: the list has the second label first
C13_Witness ==
    /\ parse_pc = "returned"
    /\ Len(parse_ret.data) = 2
    /\ LET rows == DataRows(html_content)
       IN  \E i, j, k \in 1..Len(rows) :
             /\ i < j /\ j < k
             /\ ~Accepted(rows[i]) /\ Accepted(rows[j]) /\ Accepted(rows[k])
             /\ rows[i].cols[1] = rows[k].cols[1]
             /\ rows[j].cols[1] = parse_ret.data[1].city
             /\ rows[k].cols[1] = parse_ret.data[2].city

\* the document without its i-th tag
RemoveAt(html, i) == SubSeq(html, 1, i - 1) \o SubSeq(html, i + 1, Len(html))

\* C14: a data row whose price text is rejected is skipped and nothing
\* else: the outcome is that of the markup without the row.
C14_RejectedRowAsIfAbsent ==
    parse_pc = "returned" =>
        \A i \in 1..Len(html_content) :
            (IsDataRow(html_content[i]) /\ ~Accepted(html_content[i])) =>
                parse_fuel_data(RemoveAt(html_content, i), fuel_type) = parse_ret

\* a rejected row of a fuel table, and a later row of the table recorded
C14_Witness ==
    /\ parse_pc = "returned"
    /\ ~parse_ret.raised
    /\ LET rows == DataRows(html_content)
       IN  \E i, j \in 1..Len(rows) :
             /\ i < j
             /\ ~Accepted(rows[i])
             /\ FirstAcceptedRowOf(rows, rows[j].cols[1]) = j
             /\ \E k \in 1..Len(parse_ret.data) :
                  parse_ret.data[k].city = rows[j].cols[1]

\* C15: a row with a header cell contributes nothing, whatever its data
\* cells hold: the outcome is that of the markup without the row.
C15_HeaderRowAsIfAbsent ==
    parse_pc = "returned" =>
        \A i \in 1..Len(html_content) :
            (html_content[i].tag = "tr" /\ html_content[i].th) =>
                parse_fuel_data(RemoveAt(html_content, i), fuel_type) = parse_ret

\* a header row of a fuel table with a label and a parsable price, and no
\* record of that label in the returned list
C15_Witness ==
    /\ parse_pc = "returned"
    /\ ~parse_ret.raised
    /\ LET rows == TableRows(FindAllBlocks(html_content))
       IN  \E i \in 1..Len(rows) :
             /\ rows[i].th
             /\ Len(rows[i].cols) >= 2
             /\ rows[i].cols[1] # <<>>
             /\ Accepted(rows[i])
             /\ \A k \in 1..Len(parse_ret.data) :
                  parse_ret.data[k].city # rows[i].cols[1]

----------------------------------------------------------------------------
(* Properties of clean_price_string (SpecClean) *)

FloatOrNone(s) == IF FloatParses(s) THEN FloatOf(s) ELSE None

\* the cleaned string has more than one dot, starts with a dot and has
\* exactly one more dot after it
IsLeadingDotCase(text) ==
    /\ text # NoneStr
    /\ Strip(text) # <<>>
    /\ LET cleaned == CleanedOf(text)
       IN  /\ Count(cleaned, ".") > 1
           /\ Head(cleaned) = "."
           /\ Count(Tail(cleaned), ".") = 1

\* C9 (as claimed): in the leading-dot case the value returned is the float
\* parse of the cleaned string without its first character.
C9_OnlyOneDotStripped ==
    (clean_pc = "returned" /\ IsLeadingDotCase(price_str)) =>
        clean_ret = FloatOrNone(Tail(CleanedOf(price_str)))

\* number of decimal digits of n >= 1
RECURSIVE NumDigits(_)
NumDigits(n) == IF n < 10 THEN 1 ELSE 1 + NumDigits(n \div 10)

\* v = 0 or 1e-4 <= v < 1e16: the floats str() writes without an exponent
IsPositional(v) ==
    v.ok /\ (v.m = 0 \/ (NumDigits(v.m) + v.e > -4 /\ NumDigits(v.m) + v.e <= 16))

\* C10 (as claimed): clean_price_string(str(v)) = v for every returned v.
C10_IdempotentOnStr ==
    clean_pc = "reapplied" => clean_again = clean_ret

\* C10 (amended): clean_price_string(str(v)) = v for every returned v with
\* v = 0 or 1e-4 <= v < 1e16.
C10_IdempotentOnPositionalStr ==
    (clean_pc = "reapplied" /\ IsPositional(clean_ret)) => clean_again = clean_ret

C10_Witness ==
    /\ clean_pc = "reapplied"
    /\ IsPositional(clean_ret)
    /\ clean_ret.e < 0
    /\ Count(price_str, ",") >= 1
    /\ price_str # FloatStr(clean_ret)
    /\ clean_again = clean_ret

\* C11: the artifact "ƒ,1" in front of a text changes nothing:
\* clean_price_string("ƒ,1" + s) = clean_price_string(s), the digit of the
\* artifact never reaching the price.
C11_ArtifactPrefixIgnored ==
    clean_pc = "prefixed" => clean_prefixed = clean_ret

\* a text with a price of its own, whose value a leading 1 would change
C11_Witness ==
    /\ clean_pc = "prefixed"
    /\ clean_ret.ok
    /\ clean_ret.m # 0
    /\ Head(price_str) \in Digits
    /\ clean_prefixed = clean_ret

\* the digits and dots of a text once every "ƒ,1" is deleted
DigitsAndDotsOf(text) ==
    SelectSeq(Remove(text, Artifact), LAMBDA c : c \in Digits \cup {"."})

IsBlank(text) == \A i \in 1..Len(text) : text[i] \in Whitespace

HasDigit(text) == \E i \in 1..Len(text) : text[i] \in Digits

\* more than one dot, and not a leading dot followed by exactly one more
IsAmbiguousDots(cleaned) ==
    /\ Count(cleaned, ".") > 1
    /\ ~(cleaned[1] = "." /\ Count(cleaned, ".") = 2)

\* C12 (as claimed): None is returned for a missing, empty or blank text,
\* for a text without a decimal digit and for a text whose cleaned form has
\* ambiguous dots; a float is returned for every other text.
C12_RejectsExactlyClaimed ==
    clean_pc = "returned" =>
        (clean_ret = None <=>
            \/ price_str = NoneStr
            \/ IsBlank(price_str)
            \/ ~HasDigit(price_str)
            \/ IsAmbiguousDots(DigitsAndDotsOf(price_str)))

\* C12 (amended): as claimed, with "without a decimal digit" read of the
\* cleaned form: the text left when every "ƒ,1" is deleted has no digit.
C12_RejectsExactly ==
    clean_pc = "returned" =>
        (clean_ret = None <=>
            \/ price_str = NoneStr
            \/ IsBlank(price_str)
            \/ ~HasDigit(DigitsAndDotsOf(price_str))
            \/ IsAmbiguousDots(DigitsAndDotsOf(price_str)))

\* a text with digits and ambiguous dots, rejected
C12_Witness ==
    /\ clean_pc = "returned"
    /\ price_str # NoneStr
    /\ HasDigit(DigitsAndDotsOf(price_str))
    /\ IsAmbiguousDots(DigitsAndDotsOf(price_str))
    /\ Head(DigitsAndDotsOf(price_str)) = "."
    /\ clean_ret = None

----------------------------------------------------------------------------
(* Specifications *)

Spec == Init /\ [][Next]_vars

InitClean == CleanInit /\ ParseIdle /\ MainIdle

SpecClean == InitClean /\ [][CleanNext]_vars

InitParse == ParseInit /\ CleanIdle /\ MainIdle

NextParse == CallParse

SpecParse == InitParse /\ [][NextParse]_vars

====
